---- MODULE Spec2Model ----
(***************************************************************************)
(* A model of src/src/App.tsx (the multi-source calendar page): the        *)
(* configuration resolver getCalendarConfigs, the per-source fetch-and-    *)
(* parse fetchCalendarEvents, the aggregation effect fetchAllCalendars,    *)
(* the toggles, the navigation handler and the touch gesture handlers.     *)
(*                                                                         *)
(* JavaScript strings are modelled as sequences of one-character strings,  *)
(* so that startsWith / endsWith / replace / toLowerCase are computed the  *)
(* way the code computes them.  null / undefined of a number | null state  *)
(* is the empty sequence, a number n is <<n>>.                             *)
(***************************************************************************)
EXTENDS Integers, Sequences, FiniteSets, TLC

VARIABLES
    app,         \* which App is mounted: the "multi" or the "single" source page
    env,         \* process.env: a sequence of [key, value] entries (key order)
    width,       \* window.innerWidth
    pc,          \* "boot" before the component is mounted, "run" afterwards
    calendars,   \* useState<CalendarConfig[]>
    events,      \* useState<CalendarEvent[]>
    isLoading,   \* useState(true)
    cycles,      \* the fetchAllCalendars runs that are awaiting Promise.all
    published,   \* the run whose setEvents produced the current events
    toggles,     \* number of toggle calls made so far
    view,        \* useState<View>
    date,        \* useState(new Date())
    navSteps,    \* number of handleNavigate calls made so far
    navTrail,    \* the last two handleNavigate calls: action, view, date
                 \* before, and the instant read by new Date() if any
    resized,     \* the view the last handleResize call found
    touchStart,  \* useState<number | null>
    touchEnd,    \* useState<number | null>
    gesture,     \* the coordinates the gesture in progress has reported
    ended        \* what the last handleTouchEnd call saw and dispatched

vars == <<app, env, width, pc, calendars, events, isLoading, cycles, published,
          toggles, view, date, navSteps, navTrail, resized, touchStart, touchEnd, gesture, ended>>

aggVars == <<calendars, events, isLoading, cycles, published, toggles>>
navVars == <<view, date, navSteps, navTrail, resized>>
touchVars == <<touchStart, touchEnd, gesture, ended>>

----------------------------------------------------------------------------
(* Strings *)

Upper == <<"A","B","C","D","E","F","G","H","I","J","K","L","M",
           "N","O","P","Q","R","S","T","U","V","W","X","Y","Z">>
Lower == <<"a","b","c","d","e","f","g","h","i","j","k","l","m",
           "n","o","p","q","r","s","t","u","v","w","x","y","z">>

ToLowerChar(c) ==
    IF \E i \in 1..Len(Upper) : Upper[i] = c
    THEN Lower[CHOOSE i \in 1..Len(Upper) : Upper[i] = c]
    ELSE c

\* String.prototype.toLowerCase
toLowerCase(s) == [i \in 1..Len(s) |-> ToLowerChar(s[i])]

\* String.prototype.startsWith
startsWith(s, p) == Len(p) <= Len(s) /\ SubSeq(s, 1, Len(p)) = p

\* String.prototype.endsWith
endsWith(s, p) == Len(p) <= Len(s) /\ SubSeq(s, Len(s) - Len(p) + 1, Len(s)) = p

Occurs(s, p, i) == i + Len(p) - 1 <= Len(s) /\ SubSeq(s, i, i + Len(p) - 1) = p

\* String.prototype.replace(p, '') with a string pattern: the FIRST
\* occurrence of p is removed, the string is unchanged when p does not occur
replaceFirst(s, p) ==
    IF \E i \in 1..Len(s) : Occurs(s, p, i)
    THEN LET i == CHOOSE j \in 1..Len(s) :
                     Occurs(s, p, j) /\ \A k \in 1..(j - 1) : ~Occurs(s, p, k)
         IN  SubSeq(s, 1, i - 1) \o SubSeq(s, i + Len(p), Len(s))
    ELSE s

PREFIX == <<"R","E","A","C","T","_","A","P","P","_",
            "C","A","L","E","N","D","A","R","_">>
URL_SUFFIX == <<"_","U","R","L">>
COLOR_SUFFIX == <<"_","C","O","L","O","R">>
TITLE_SUFFIX == <<"_","T","I","T","L","E">>
SHOW_DETAILS_SUFFIX == <<"_","S","H","O","W","_","D","E","T","A","I","L","S">>
DEFAULT_COLOR == <<"#","4","F","4","6","E","5">>
TRUE_STRING == <<"t","r","u","e">>

----------------------------------------------------------------------------
(* process.env *)

HasKey(e, key) == \E i \in 1..Len(e) : e[i].key = key

\* envVars[key]; only used where HasKey holds
Value(e, key) == e[CHOOSE i \in 1..Len(e) : e[i].key = key].value

\* envVars[key] || dflt : an unset or empty value gives the default
ValueOr(e, key, dflt) ==
    IF HasKey(e, key) /\ Value(e, key) # <<>> THEN Value(e, key) ELSE dflt

\* the CalendarConfig pushed for one matching key
ConfigOfKey(e, key) ==
    LET baseKey == replaceFirst(replaceFirst(key, PREFIX), URL_SUFFIX)
    IN  [id          |-> toLowerCase(baseKey),
         url         |-> ValueOr(e, key, <<>>),
         color       |-> ValueOr(e, PREFIX \o baseKey \o COLOR_SUFFIX, DEFAULT_COLOR),
         title       |-> ValueOr(e, PREFIX \o baseKey \o TITLE_SUFFIX, baseKey),
         enabled     |-> TRUE,
         showDetails |-> /\ HasKey(e, PREFIX \o baseKey \o SHOW_DETAILS_SUFFIX)
                         /\ Value(e, PREFIX \o baseKey \o SHOW_DETAILS_SUFFIX) = TRUE_STRING]

IsCalendarKey(key) == startsWith(key, PREFIX) /\ endsWith(key, URL_SUFFIX)

RECURSIVE ConfigsFrom(_, _)
ConfigsFrom(e, i) ==
    IF i > Len(e) THEN <<>>
    ELSE (IF IsCalendarKey(e[i].key) THEN <<ConfigOfKey(e, e[i].key)>> ELSE <<>>)
         \o ConfigsFrom(e, i + 1)

\* getCalendarConfigs: one record per matching key, in key order
getCalendarConfigs(e) == ConfigsFrom(e, 1)

----------------------------------------------------------------------------
(* The remote feeds: what ICAL.parse / getAllSubcomponents('vevent') give   *)
(* for the text behind a URL.  A vevent is a record of its properties; an  *)
(* absent property is an absent field.                                     *)

U1 == <<"u","1">>
U2 == <<"u","2">>
U3 == <<"u","3">>
U4 == <<"u","4">>

Lunch == <<"L","u","n","c","h">>
Gym == <<"G","y","m">>
Trip == <<"T","r","i","p">>
Cafe == <<"C","a","f","e">>
Note == <<"n","o","t","e">>

VLunch  == [summary |-> Lunch, start |-> 12, end |-> 13, isDate |-> FALSE,
            description |-> Note, location |-> Cafe]
VGym    == [summary |-> Gym, start |-> 14, end |-> 15, isDate |-> FALSE]
VTrip   == [summary |-> Trip, start |-> 0, end |-> 24, isDate |-> TRUE,
            description |-> <<>>, location |-> Cafe]
VBroken == [summary |-> Gym]

\* the document served at a URL
Web(url) ==
    CASE url = U1 -> [wellFormed |-> TRUE, vevents |-> <<VLunch>>]
      [] url = U2 -> [wellFormed |-> TRUE, vevents |-> <<VGym>>]
      [] url = U3 -> [wellFormed |-> TRUE, vevents |-> <<VTrip, VGym>>]
      [] url = U4 -> [wellFormed |-> TRUE, vevents |-> <<VLunch, VBroken>>]
      [] OTHER    -> [wellFormed |-> FALSE, vevents |-> <<>>]

\* a truthy string property of an ICAL.Event (null, undefined and '' are falsy)
Truthy(v, f) == f \in DOMAIN v /\ v[f] # <<>>

----------------------------------------------------------------------------
(* fetchCalendarEvents *)

\* EventData with the title taken from the vevent whatever showDetails is
EventData_summary(calendar, vevent) ==
    LET base == [title      |-> vevent.summary,
                 start      |-> vevent.start,
                 end        |-> vevent.end,
                 allDay     |-> vevent.isDate,
                 calendarId |-> calendar.id]
        d == IF calendar.showDetails /\ Truthy(vevent, "description")
             THEN "description" :> vevent.description ELSE <<>>
        l == IF calendar.showDetails /\ Truthy(vevent, "location")
             THEN "location" :> vevent.location ELSE <<>>
    IN  base @@ d @@ l

\* EventData copying description and location whenever the property exists,
\* an empty one included
EventData_defined(calendar, vevent) ==
    LET base == [title      |-> IF calendar.showDetails THEN vevent.summary
                                ELSE calendar.title,
                 start      |-> vevent.start,
                 end        |-> vevent.end,
                 allDay     |-> vevent.isDate,
                 calendarId |-> calendar.id]
        d == IF calendar.showDetails /\ "description" \in DOMAIN vevent
             THEN "description" :> vevent.description ELSE <<>>
        l == IF calendar.showDetails /\ "location" \in DOMAIN vevent
             THEN "location" :> vevent.location ELSE <<>>
    IN  base @@ d @@ l

\* the vevents.map callback: one CalendarEvent per vevent
EventData(calendar, vevent) ==
    LET base == [title      |-> IF calendar.showDetails THEN vevent.summary
                                ELSE calendar.title,
                 start      |-> vevent.start,
                 end        |-> vevent.end,
                 allDay     |-> vevent.isDate,
                 calendarId |-> calendar.id]
        d == IF calendar.showDetails /\ Truthy(vevent, "description")
             THEN "description" :> vevent.description ELSE <<>>
        l == IF calendar.showDetails /\ Truthy(vevent, "location")
             THEN "location" :> vevent.location ELSE <<>>
    IN  base @@ d @@ l

\* event.startDate.toJSDate() / event.endDate.toJSDate() throw a TypeError
\* when the vevent has no DTSTART / DTEND
Convertible(vevent) == {"start", "end", "isDate"} \subseteq DOMAIN vevent

\* something inside the try block throws: fetch rejects, ICAL.parse throws,
\* or the map callback throws
Throws(net, doc) ==
    \/ net = "error"
    \/ ~doc.wellFormed
    \/ \E i \in 1..Len(doc.vevents) : ~Convertible(doc.vevents[i])

\* fetchCalendarEvents without its catch block: a failure rejects the promise
fetchCalendarEvents_rethrow(calendar, net) ==
    LET doc == Web(calendar.url)
    IN  IF Throws(net, doc)
        THEN [rejected |-> TRUE, logged |-> FALSE, value |-> <<>>]
        ELSE [rejected |-> FALSE, logged |-> FALSE,
              value |-> [i \in 1..Len(doc.vevents) |->
                            EventData(calendar, doc.vevents[i])]]

\* what the promise returned by fetchCalendarEvents(calendar) settles to:
\* it never rejects; the catch block logs and returns []
fetchCalendarEvents(calendar, net) ==
    LET doc == Web(calendar.url)
    IN  IF Throws(net, doc)
        THEN [rejected |-> FALSE, logged |-> TRUE, value |-> <<>>]
        ELSE [rejected |-> FALSE, logged |-> FALSE,
              value |-> [i \in 1..Len(doc.vevents) |->
                            EventData(calendar, doc.vevents[i])]]

----------------------------------------------------------------------------
(* fetchAllCalendars *)

\* fetchAllCalendars fetching every calendar, the disabled ones included
enabledCalendars_all(cals) == cals

\* calendars.filter(cal => cal.enabled)
enabledCalendars(cals) == SelectSeq(cals, LAMBDA cal : cal.enabled)

\* a run of fetchAllCalendars suspended in await Promise.all: the calendars
\* of the render it closed over, the fetches it issued, the slot of each
\* fetch (<<>> while pending, <<r>> once settled to r), the order in which
\* the fetches settled, and whether it is the run of the mount effect
NewCycle(cals) ==
    [cals    |-> cals,
     fetches |-> enabledCalendars(cals),
     slots   |-> [i \in 1..Len(enabledCalendars(cals)) |-> <<>>],
     order   |-> <<>>,
     first   |-> pc = "boot"]

\* results collected in the order the promises settle (a push per result)
StoreResult_push(slots, i, r) ==
    LET j == CHOOSE k \in 1..Len(slots) :
                 slots[k] = <<>> /\ \A h \in 1..(k - 1) : slots[h] # <<>>
    IN  [slots EXCEPT ![j] = <<r>>]

\* Promise.all stores the value of the i-th promise at index i
StoreResult(slots, i, r) == [slots EXCEPT ![i] = <<r>>]

AllSettled(slots) == \A i \in 1..Len(slots) : slots[i] # <<>>

RECURSIVE flat(_)
\* Array.prototype.flat over the array of per-source event arrays
flat(arrays) ==
    IF arrays = <<>> THEN <<>> ELSE Head(arrays) \o flat(Tail(arrays))

\* allEvents.flat() for a cycle whose promises have all settled
AllEvents(slots) == flat([i \in 1..Len(slots) |-> slots[i][1].value])

RemoveAt(s, k) == SubSeq(s, 1, k - 1) \o SubSeq(s, k + 1, Len(s))

\* fetchAllCalendars returning before its try block when no calendar is
\* enabled
StartCycle_return(cals) ==
    LET c == NewCycle(cals)
    IN  IF AllSettled(c.slots)
        THEN UNCHANGED <<events, published, isLoading, cycles>>
        ELSE /\ cycles' = Append(cycles, c)
             /\ UNCHANGED <<events, published, isLoading>>

\* The effect of [calendars]: fetchAllCalendars() runs up to its await.
\* With no enabled calendar Promise.all([]) is already resolved and the
\* continuation (setEvents, finally) runs before any other handler.
StartCycle(cals) ==
    LET c == NewCycle(cals)
    IN  IF AllSettled(c.slots)
        THEN /\ events' = AllEvents(c.slots)
             /\ published' = <<c>>
             /\ isLoading' = FALSE
             /\ cycles' = cycles
        ELSE /\ cycles' = Append(cycles, c)
             /\ UNCHANGED <<events, published, isLoading>>

\* FetchSettles appending each result to the events as it arrives
FetchSettles_patch(k, i, net) ==
    /\ pc = "run"
    /\ app = "multi"
    /\ k \in 1..Len(cycles)
    /\ i \in 1..Len(cycles[k].slots)
    /\ cycles[k].slots[i] = <<>>
    /\ LET c == cycles[k]
           r == fetchCalendarEvents(c.fetches[i], net)
           slots == StoreResult(c.slots, i, r)
           done == [c EXCEPT !.slots = slots, !.order = Append(c.order, i)]
       IN  IF r.rejected
           THEN /\ cycles' = RemoveAt(cycles, k)
                /\ isLoading' = FALSE
                /\ UNCHANGED <<events, published>>
           ELSE IF AllSettled(slots)
           THEN /\ cycles' = RemoveAt(cycles, k)
                /\ events' = AllEvents(slots)
                /\ published' = <<done>>
                /\ isLoading' = FALSE
           ELSE /\ cycles' = [cycles EXCEPT ![k] = done]
                /\ events' = events \o r.value
                /\ UNCHANGED <<published, isLoading>>
    /\ UNCHANGED <<app, env, width, pc, calendars, toggles>>
    /\ UNCHANGED navVars
    /\ UNCHANGED touchVars

\* FetchSettles without the finally block
FetchSettles_nofinally(k, i, net) ==
    /\ pc = "run"
    /\ app = "multi"
    /\ k \in 1..Len(cycles)
    /\ i \in 1..Len(cycles[k].slots)
    /\ cycles[k].slots[i] = <<>>
    /\ LET c == cycles[k]
           r == fetchCalendarEvents(c.fetches[i], net)
           slots == StoreResult(c.slots, i, r)
           done == [c EXCEPT !.slots = slots, !.order = Append(c.order, i)]
       IN  IF r.rejected
           THEN /\ cycles' = RemoveAt(cycles, k)
                /\ isLoading' = FALSE
                /\ UNCHANGED <<events, published>>
           ELSE IF AllSettled(slots)
           THEN /\ cycles' = RemoveAt(cycles, k)
                /\ events' = AllEvents(slots)
                /\ published' = <<done>>
                /\ UNCHANGED isLoading
           ELSE /\ cycles' = [cycles EXCEPT ![k] = done]
                /\ UNCHANGED <<events, published, isLoading>>
    /\ UNCHANGED <<app, env, width, pc, calendars, toggles>>
    /\ UNCHANGED navVars
    /\ UNCHANGED touchVars

\* One fetchCalendarEvents promise of cycle k settles.  A rejection makes
\* Promise.all reject: catch, no setEvents, finally.  The last fulfilment
\* makes Promise.all resolve: setEvents(allEvents.flat()), finally.
FetchSettles(k, i, net) ==
    /\ pc = "run"
    /\ app = "multi"
    /\ k \in 1..Len(cycles)
    /\ i \in 1..Len(cycles[k].slots)
    /\ cycles[k].slots[i] = <<>>
    /\ LET c == cycles[k]
           r == fetchCalendarEvents(c.fetches[i], net)
           slots == StoreResult(c.slots, i, r)
           done == [c EXCEPT !.slots = slots, !.order = Append(c.order, i)]
       IN  IF r.rejected
           THEN /\ cycles' = RemoveAt(cycles, k)
                /\ isLoading' = FALSE
                /\ UNCHANGED <<events, published>>
           ELSE IF AllSettled(slots)
           THEN /\ cycles' = RemoveAt(cycles, k)
                /\ events' = AllEvents(slots)
                /\ published' = <<done>>
                /\ isLoading' = FALSE
           ELSE /\ cycles' = [cycles EXCEPT ![k] = done]
                /\ UNCHANGED <<events, published, isLoading>>
    /\ UNCHANGED <<app, env, width, pc, calendars, toggles>>
    /\ UNCHANGED navVars
    /\ UNCHANGED touchVars

----------------------------------------------------------------------------
(* toggleCalendar, toggleDetails *)

\* While isLoading is true App returns the loading screen only, so none of
\* the handlers passed to the page's elements can be called.
Rendered == pc = "run" /\ ~isLoading

MaxToggles == 2

Ids(cals) == {cals[i].id : i \in 1..Len(cals)}

\* toggleCalendar dropping the calendar from the list instead of disabling it
toggleCalendar_remove(calendarId) ==
    /\ Rendered
    /\ toggles < MaxToggles
    /\ LET next == SelectSeq(calendars, LAMBDA cal : cal.id # calendarId)
       IN  /\ calendars' = next
           /\ StartCycle(next)
    /\ toggles' = toggles + 1
    /\ UNCHANGED <<app, env, width, pc>>
    /\ UNCHANGED navVars
    /\ UNCHANGED touchVars

\* toggleCalendar without the test of the id: every calendar is inverted
toggleCalendar_all(calendarId) ==
    /\ Rendered
    /\ toggles < MaxToggles
    /\ LET next == [i \in 1..Len(calendars) |->
                       [calendars[i] EXCEPT !.enabled = ~calendars[i].enabled]]
       IN  /\ calendars' = next
           /\ StartCycle(next)
    /\ toggles' = toggles + 1
    /\ UNCHANGED <<app, env, width, pc>>
    /\ UNCHANGED navVars
    /\ UNCHANGED touchVars

\* setCalendars(prev => prev.map(...)) makes a new array, so the effect of
\* [calendars] runs again after the render: a new cycle starts
toggleCalendar(calendarId) ==
    /\ Rendered
    /\ toggles < MaxToggles
    /\ LET next == [i \in 1..Len(calendars) |->
                       IF calendars[i].id = calendarId
                       THEN [calendars[i] EXCEPT !.enabled = ~calendars[i].enabled]
                       ELSE calendars[i]]
       IN  /\ calendars' = next
           /\ StartCycle(next)
    /\ toggles' = toggles + 1
    /\ UNCHANGED <<app, env, width, pc>>
    /\ UNCHANGED navVars
    /\ UNCHANGED touchVars

toggleDetails(calendarId) ==
    /\ Rendered
    /\ toggles < MaxToggles
    /\ LET next == [i \in 1..Len(calendars) |->
                       IF calendars[i].id = calendarId
                       THEN [calendars[i] EXCEPT !.showDetails = ~calendars[i].showDetails]
                       ELSE calendars[i]]
       IN  /\ calendars' = next
           /\ StartCycle(next)
    /\ toggles' = toggles + 1
    /\ UNCHANGED <<app, env, width, pc>>
    /\ UNCHANGED navVars
    /\ UNCHANGED touchVars

----------------------------------------------------------------------------
(* Dates: the local calendar fields of a JavaScript Date, month 0..11.     *)
(* setDate and setMonth leave the time of day alone, so it is left out.    *)

IsLeap(y) == (y % 4 = 0 /\ y % 100 # 0) \/ y % 400 = 0

DaysInMonth(y, m) ==
    IF m = 1 THEN (IF IsLeap(y) THEN 29 ELSE 28)
    ELSE IF m \in {3, 5, 8, 10} THEN 30 ELSE 31

RECURSIVE MakeDate(_, _, _)
\* the Date whose fields were set to year y, month m, day d, any of which
\* may be out of range: months carry into years, days into months
MakeDate(y, m, d) ==
    IF m < 0 \/ m > 11 THEN MakeDate(y + (m \div 12), m % 12, d)
    ELSE IF d < 1 THEN MakeDate(y, m - 1, d + DaysInMonth(y + ((m - 1) \div 12), (m - 1) % 12))
    ELSE IF d > DaysInMonth(y, m) THEN MakeDate(y, m + 1, d - DaysInMonth(y, m))
    ELSE [y |-> y, m |-> m, d |-> d]

\* newDate.setMonth(n), newDate a copy of dt
setMonth(dt, n) == MakeDate(dt.y, n, dt.d)

\* newDate.setDate(n), newDate a copy of dt
setDate(dt, n) == MakeDate(dt.y, dt.m, n)

Views == {"day", "work_week", "week", "month", "agenda"}
Actions == {"PREV", "NEXT", "TODAY"}

\* handleNavigate whose PREV branch steps a week in the work_week view too
NewDate_step(dt, v, action, now) ==
    CASE action = "PREV" ->
           (CASE v = "month"     -> setMonth(dt, dt.m - 1)
              [] v = "week"      -> setDate(dt, dt.d - 7)
              [] v = "work_week" -> setDate(dt, dt.d - 7)
              [] OTHER           -> dt)
      [] action = "NEXT" ->
           (CASE v = "month"     -> setMonth(dt, dt.m + 1)
              [] v = "week"      -> setDate(dt, dt.d + 7)
              [] v = "work_week" -> setDate(dt, dt.d + 3)
              [] OTHER           -> dt)
      [] OTHER -> now

\* handleNavigate whose TODAY branch keeps the date
NewDate_today(dt, v, action, now) ==
    CASE action = "PREV" ->
           (CASE v = "month"     -> setMonth(dt, dt.m - 1)
              [] v = "week"      -> setDate(dt, dt.d - 7)
              [] v = "work_week" -> setDate(dt, dt.d - 3)
              [] OTHER           -> dt)
      [] action = "NEXT" ->
           (CASE v = "month"     -> setMonth(dt, dt.m + 1)
              [] v = "week"      -> setDate(dt, dt.d + 7)
              [] v = "work_week" -> setDate(dt, dt.d + 3)
              [] OTHER           -> dt)
      [] OTHER -> dt

\* the date handleNavigate(action) passes to setDate, for the date and view
\* of the render and the instant now of the call
NewDate(dt, v, action, now) ==
    CASE action = "PREV" ->
           (CASE v = "month"     -> setMonth(dt, dt.m - 1)
              [] v = "week"      -> setDate(dt, dt.d - 7)
              [] v = "work_week" -> setDate(dt, dt.d - 3)
              [] OTHER           -> dt)
      [] action = "NEXT" ->
           (CASE v = "month"     -> setMonth(dt, dt.m + 1)
              [] v = "week"      -> setDate(dt, dt.d + 7)
              [] v = "work_week" -> setDate(dt, dt.d + 3)
              [] OTHER           -> dt)
      [] OTHER -> now

MaxNavSteps == 3

\* the instants at which the page is used
Instants ==
    { [y |-> 2023, m |-> 11, d |-> 28], [y |-> 2024, m |-> 0, d |-> 31],
      [y |-> 2024, m |-> 1, d |-> 27],  [y |-> 2023, m |-> 1, d |-> 28] }

\* the state change of one handleNavigate call
Navigate(action, now) ==
    /\ date' = NewDate(date, view, action, now)
    /\ navSteps' = navSteps + 1
    /\ navTrail' = (IF navTrail = <<>> THEN <<>> ELSE <<navTrail[Len(navTrail)]>>)
                   \o <<[action |-> action, view |-> view, from |-> date,
                          read |-> IF action \in {"PREV", "NEXT"} THEN <<>>
                                   ELSE <<now>>]>>

\* a click on one of the three navigation buttons
handleNavigate(action, now) ==
    /\ Rendered
    /\ navSteps < MaxNavSteps
    /\ Navigate(action, now)
    /\ UNCHANGED <<app, env, width, pc, view, resized>>
    /\ UNCHANGED aggVars
    /\ UNCHANGED touchVars

\* the view buttons and the widget's onView
setView(v) ==
    /\ Rendered
    /\ view' = v
    /\ UNCHANGED <<app, env, width, pc, date, navSteps, navTrail, resized>>
    /\ UNCHANGED aggVars
    /\ UNCHANGED touchVars

BREAKPOINT == 768
Widths == {767, 768}

\* the handleResize of the single-source page, narrowing to the day view
ResizedView_day(w) == IF w < BREAKPOINT THEN "day" ELSE "week"

\* the view handleResize sets for window.innerWidth = w
ResizedView(w) == IF w < BREAKPOINT THEN "work_week" ELSE "week"

\* the resize listener
handleResize(w) ==
    /\ pc = "run"
    /\ width' = w
    /\ view' = ResizedView(w)
    /\ resized' = [seen |-> TRUE, before |-> view]
    /\ UNCHANGED <<app, env, pc, date, navSteps, navTrail>>
    /\ UNCHANGED aggVars
    /\ UNCHANGED touchVars

----------------------------------------------------------------------------
(* Touch gestures *)

THRESHOLD == 50
Coords == {0, 50, 60, 120}

Idle == [active |-> FALSE, start |-> <<>>, move |-> <<>>]
NotEnded == [seen |-> FALSE, start |-> <<>>, move |-> <<>>, dispatched |-> <<>>]

\* !x for x : number | null
Falsy(x) == x = <<>> \/ x[1] = 0

handleTouchStart(x) ==
    /\ Rendered
    /\ ~gesture.active
    /\ touchStart' = <<x>>
    /\ gesture' = [active |-> TRUE, start |-> <<x>>, move |-> <<>>]
    /\ UNCHANGED <<app, env, width, pc, touchEnd, ended>>
    /\ UNCHANGED aggVars
    /\ UNCHANGED navVars

handleTouchMove(x) ==
    /\ Rendered
    /\ gesture.active
    /\ touchEnd' = <<x>>
    /\ gesture' = [gesture EXCEPT !.move = <<x>>]
    /\ UNCHANGED <<app, env, width, pc, touchStart, ended>>
    /\ UNCHANGED aggVars
    /\ UNCHANGED navVars

\* the navigations handleTouchEnd dispatches for the stored coordinates
Dispatched(ts, te) ==
    IF Falsy(ts) \/ Falsy(te) THEN <<>>
    ELSE LET distance == ts[1] - te[1]
         IN  (IF distance > THRESHOLD THEN <<"NEXT">> ELSE <<>>)
             \o (IF distance < -THRESHOLD THEN <<"PREV">> ELSE <<>>)

handleTouchEnd(now) ==
    /\ Rendered
    /\ gesture.active
    /\ LET nav == Dispatched(touchStart, touchEnd)
       IN  /\ ended' = [seen |-> TRUE, start |-> gesture.start,
                        move |-> gesture.move, dispatched |-> nav]
           /\ IF Falsy(touchStart) \/ Falsy(touchEnd)
              THEN UNCHANGED <<touchStart, touchEnd>>
              ELSE touchStart' = <<>> /\ touchEnd' = <<>>
           /\ IF nav = <<>>
              THEN UNCHANGED <<date, navSteps, navTrail>>
              ELSE navSteps < MaxNavSteps /\ Navigate(nav[1], now)
    /\ gesture' = Idle
    /\ UNCHANGED <<app, env, width, pc, view, resized>>
    /\ UNCHANGED aggVars

----------------------------------------------------------------------------
(* Mounting *)

\* the first render and its effects: useState(getCalendarConfigs()), the
\* first run of fetchAllCalendars, and the first handleResize()
Mount ==
    /\ pc = "boot"
    /\ app = "multi"
    /\ pc' = "run"
    /\ calendars' = getCalendarConfigs(env)
    /\ StartCycle(getCalendarConfigs(env))
    /\ view' = ResizedView(width)
    /\ resized' = [seen |-> TRUE, before |-> view]
    /\ UNCHANGED <<app, env, width, toggles, date, navSteps, navTrail>>
    /\ UNCHANGED touchVars

InitApp(A, E, W, T) ==
    /\ app \in A
    /\ env \in E
    /\ width \in W
    /\ date \in T
    /\ pc = "boot"
    /\ calendars = <<>>
    /\ events = <<>>
    /\ isLoading = TRUE
    /\ cycles = <<>>
    /\ published = <<>>
    /\ toggles = 0
    /\ view = "week"
    /\ navSteps = 0
    /\ navTrail = <<>>
    /\ resized = [seen |-> FALSE, before |-> "week"]
    /\ touchStart = <<>>
    /\ touchEnd = <<>>
    /\ gesture = Idle
    /\ ended = NotEnded

InitWith(E, W, T) == InitApp({"multi"}, E, W, T)

----------------------------------------------------------------------------
(* The single-source page (the first App of the file) *)

ICS_URL_KEY == <<"R","E","A","C","T","_","A","P","P","_","I","C","S","_","U","R","L">>

\* the fixed title of every event of the single-source page
BOOKED == <<"b","o","o","k","e","d">>

\* !icsUrl : the variable is unset or empty
NoIcsUrl(e) == ~HasKey(e, ICS_URL_KEY) \/ Value(e, ICS_URL_KEY) = <<>>

\* the view its handleResize sets
SingleResizedView(w) == IF w < BREAKPOINT THEN "day" ELSE "week"

\* The first render and its effects: fetchCalendar() runs up to its first
\* await, or throws before it when there is no URL (catch, finally), and
\* handleResize() runs once.
MountSingle ==
    /\ pc = "boot"
    /\ app = "single"
    /\ pc' = "run"
    /\ IF NoIcsUrl(env)
       THEN /\ isLoading' = FALSE
            /\ UNCHANGED <<events, published, cycles>>
       ELSE /\ cycles' = <<[cals    |-> <<>>,
                            fetches |-> <<[url |-> Value(env, ICS_URL_KEY)]>>,
                            slots   |-> <<<<>>>>,
                            order   |-> <<>>,
                            first   |-> TRUE]>>
            /\ UNCHANGED <<events, published, isLoading>>
    /\ view' = SingleResizedView(width)
    /\ resized' = [seen |-> TRUE, before |-> view]
    /\ UNCHANGED <<app, env, width, calendars, toggles, date, navSteps, navTrail>>
    /\ UNCHANGED touchVars

\* The fetch of fetchCalendar settles: setEvents with one event per vevent,
\* or catch when anything threw; finally in both cases.
fetchCalendarSettles(net) ==
    /\ pc = "run"
    /\ app = "single"
    /\ cycles # <<>>
    /\ LET c == cycles[1]
           doc == Web(c.fetches[1].url)
           calendarEvents == [i \in 1..Len(doc.vevents) |->
                                 [title  |-> BOOKED,
                                  start  |-> doc.vevents[i].start,
                                  end    |-> doc.vevents[i].end,
                                  allDay |-> doc.vevents[i].isDate]]
       IN  IF Throws(net, doc)
           THEN UNCHANGED <<events, published>>
           ELSE /\ events' = calendarEvents
                /\ published' = <<[c EXCEPT !.order = <<1>>]>>
    /\ cycles' = <<>>
    /\ isLoading' = FALSE
    /\ UNCHANGED <<app, env, width, pc, calendars, toggles>>
    /\ UNCHANGED navVars
    /\ UNCHANGED touchVars

----------------------------------------------------------------------------
(* Environments *)

MaxNames == 2

NameA == <<"A">>
NameB == <<"B">>
Names == {NameA, <<"a">>, NameB, <<"M","Y">>, <<"X","_","U","R","L","_","Y">>}

Red == <<"r","e","d">>
Busy == <<"B","u","s","y">>
FALSE_STRING == <<"f","a","l","s","e">>

\* which optional sibling keys a source has
OptChoices == { {}, {"COLOR"}, {"TITLE"}, {"SHOW"}, {"COLOR", "TITLE", "SHOW"},
                {"SHOW_FALSE"}, {"TITLE_EMPTY"} }

\* the entries of one named source
Block(name, url, opts) ==
    <<[key |-> PREFIX \o name \o URL_SUFFIX, value |-> url]>>
    \o (IF "COLOR" \in opts
        THEN <<[key |-> PREFIX \o name \o COLOR_SUFFIX, value |-> Red]>> ELSE <<>>)
    \o (IF "TITLE" \in opts
        THEN <<[key |-> PREFIX \o name \o TITLE_SUFFIX, value |-> Busy]>> ELSE <<>>)
    \o (IF "TITLE_EMPTY" \in opts
        THEN <<[key |-> PREFIX \o name \o TITLE_SUFFIX, value |-> <<>>]>> ELSE <<>>)
    \o (IF "SHOW" \in opts
        THEN <<[key |-> PREFIX \o name \o SHOW_DETAILS_SUFFIX, value |-> TRUE_STRING]>>
        ELSE <<>>)
    \o (IF "SHOW_FALSE" \in opts
        THEN <<[key |-> PREFIX \o name \o SHOW_DETAILS_SUFFIX, value |-> FALSE_STRING]>>
        ELSE <<>>)

\* a key that is not a calendar key
Other == <<[key |-> ICS_URL_KEY, value |-> U1]>>

RECURSIVE Blocks(_, _, _)
Blocks(names, urls, opts) ==
    IF names = <<>> THEN <<>>
    ELSE Block(Head(names), Head(urls), Head(opts))
         \o Blocks(Tail(names), Tail(urls), Tail(opts))

EnvOf(names, urls, opts) == Other \o Blocks(names, urls, opts)

Distinct(seq) == \A i, j \in 1..Len(seq) : i # j => seq[i] # seq[j]

\* every environment with at most MaxNames named sources
CfgEnvs ==
    UNION { { EnvOf(ns, [i \in 1..n |-> U1], os) :
                ns \in {q \in [1..n -> Names] : Distinct(q)},
                os \in [1..n -> OptChoices] } : n \in 0..MaxNames }

\* the environments the aggregation is run with
AggEnvs ==
    { EnvOf(<<>>, <<>>, <<>>),
      EnvOf(<<NameA, NameB>>, <<U1, U2>>, <<{"SHOW"}, {"TITLE"}>>),
      EnvOf(<<NameA, NameB>>, <<U3, U4>>, <<{"SHOW"}, {"SHOW"}>>),
      EnvOf(<<NameA, <<"a">>>>, <<U1, U2>>, <<{}, {"SHOW"}>>) }

Noon == [y |-> 2024, m |-> 5, d |-> 15]

----------------------------------------------------------------------------
(* Specifications *)

\* the aggregation: mounting, fetch completions and toggles
Init == InitWith(AggEnvs, {768}, {Noon})

Next ==
    \/ Mount
    \/ \E k \in 1..Len(cycles) : \E i \in 1..Len(cycles[k].slots) :
         \E net \in {"ok", "error"} : FetchSettles(k, i, net)
    \/ \E id \in Ids(calendars) : toggleCalendar(id)
    \/ \E id \in Ids(calendars) : toggleDetails(id)

Spec == Init /\ [][Next]_vars

\* some pending fetch settles
SettleSome ==
    \E k \in 1..Len(cycles) : \E i \in 1..Len(cycles[k].slots) :
        \E net \in {"ok", "error"} : FetchSettles(k, i, net)

\* the aggregation when the component mounts and no fetch hangs
SpecFair == Spec /\ WF_vars(Mount) /\ WF_vars(SettleSome)

\* the configuration resolver over every environment
InitCfg == InitWith(CfgEnvs, {768}, {Noon})

NextCfg == Mount

SpecCfg == InitCfg /\ [][NextCfg]_vars

\* the environments either page is mounted with
BootEnvs ==
    AggEnvs \cup
    { <<>>,
      <<[key |-> ICS_URL_KEY, value |-> <<>>]>>,
      <<[key |-> ICS_URL_KEY, value |-> U3]>>,
      <<[key |-> ICS_URL_KEY, value |-> U4]>>,
      Blocks(<<NameA>>, <<U1>>, <<{}>>),
      Blocks(<<NameB, NameA>>, <<<<>>, U3>>, <<{}, {"SHOW"}>>) }

\* mounting either page and its initial fetches
InitBoot == InitApp({"multi", "single"}, BootEnvs, Widths, {Noon})

NextBoot ==
    \/ Mount
    \/ MountSingle
    \/ SettleSome
    \/ \E net \in {"ok", "error"} : fetchCalendarSettles(net)

SpecBoot == InitBoot /\ [][NextBoot]_vars

\* navigation with the buttons and view switches
InitNav == InitWith({EnvOf(<<>>, <<>>, <<>>)}, Widths, Instants)

NextNav ==
    \/ Mount
    \/ \E a \in Actions : \E now \in Instants : handleNavigate(a, now)
    \/ \E v \in Views : setView(v)

SpecNav == InitNav /\ [][NextNav]_vars

\* view switches and resizes
InitView == InitWith({EnvOf(<<>>, <<>>, <<>>)}, Widths, Instants)

NextView ==
    \/ Mount
    \/ \E v \in Views : setView(v)
    \/ \E w \in Widths : handleResize(w)

SpecView == InitView /\ [][NextView]_vars

\* touch gestures
InitTouch == InitWith({EnvOf(<<>>, <<>>, <<>>)}, {767}, {Noon})

NextTouch ==
    \/ Mount
    \/ \E x \in Coords : handleTouchStart(x)
    \/ \E x \in Coords : handleTouchMove(x)
    \/ handleTouchEnd(Noon)

SpecTouch == InitTouch /\ [][NextTouch]_vars

\* the aggregation when the network never fails: every fetch of a url
\* receives the document Web(url)
NextSameDocs ==
    \/ Mount
    \/ \E k \in 1..Len(cycles) : \E i \in 1..Len(cycles[k].slots) :
         FetchSettles(k, i, "ok")
    \/ \E id \in Ids(calendars) : toggleCalendar(id)
    \/ \E id \in Ids(calendars) : toggleDetails(id)

SpecSameDocs == Init /\ [][NextSameDocs]_vars

----------------------------------------------------------------------------
(* Properties of the aggregation (Spec) *)

Range(seq) == {seq[i] : i \in 1..Len(seq)}

\* every run of fetchAllCalendars the state still knows: those in flight and
\* the one that published last
Runs == Range(cycles) \cup Range(published)

\* the settled fetches of those runs: the calendar fetched and the result
Settled ==
    UNION { { [calendar |-> c.fetches[i], result |-> c.slots[i][1]] :
                i \in {j \in 1..Len(c.slots) : c.slots[j] # <<>>} } : c \in Runs }

\* the events the vevents of a calendar's document map to; none when the
\* document cannot be parsed or mapped
Mapped(calendar) ==
    IF Throws("ok", Web(calendar.url)) THEN <<>>
    ELSE [k \in 1..Len(Web(calendar.url).vevents) |->
             EventData(calendar, Web(calendar.url).vevents[k])]

EnabledIds(cals) == {cals[i].id : i \in {j \in 1..Len(cals) : cals[j].enabled}}

\* C1: a cycle fetches only sources that are enabled in the source list it
\* was started from, and the list it publishes holds only events of such
\* sources.
C1_OnlyEnabled ==
    /\ \A c \in Runs : \A i \in 1..Len(c.fetches) :
          \E j \in 1..Len(c.cals) : c.cals[j] = c.fetches[i] /\ c.cals[j].enabled
    /\ published # <<>> =>
          \A n \in 1..Len(events) :
              events[n].calendarId \in EnabledIds(published[1].cals)

\* a cycle started from a list with a disabled source has published events
C1_Witness ==
    /\ published # <<>>
    /\ events # <<>>
    /\ \E j \in 1..Len(published[1].cals) : ~published[1].cals[j].enabled

\* C2: once every started cycle has completed, the published list holds no
\* event of a source that is disabled in the current source list.
C2_Discarded ==
    (pc = "run" /\ cycles = <<>>) =>
        \A n \in 1..Len(events) : \A j \in 1..Len(calendars) :
            calendars[j].id = events[n].calendarId => calendars[j].enabled

\* C3: every event fetchCalendarEvents returns for a source with
\* showDetails=false is titled with the source's title and has neither a
\* description nor a location field.
C3_HiddenDetails ==
    \A s \in Settled :
        ~s.calendar.showDetails =>
            \A k \in 1..Len(s.result.value) :
                /\ s.result.value[k].title = s.calendar.title
                /\ "description" \notin DOMAIN s.result.value[k]
                /\ "location" \notin DOMAIN s.result.value[k]

\* a source with hidden details returned an event whose vevent has another
\* summary than the source's title, and a description and a location
C3_Witness ==
    \E s \in Settled :
        /\ ~s.calendar.showDetails
        /\ s.result.value # <<>>
        /\ LET v == Web(s.calendar.url).vevents[1]
           IN  /\ v.summary # s.calendar.title
               /\ Truthy(v, "description")
               /\ Truthy(v, "location")

\* C4: every event fetchCalendarEvents returns for a source with
\* showDetails=true is titled with its vevent's summary, has a description
\* exactly when the vevent has a non-empty one, a location exactly when the
\* vevent has a non-empty one, and each equals the vevent's value.
C4_ShownDetails ==
    \A s \in Settled :
        (s.calendar.showDetails /\ ~s.result.logged) =>
            LET vevents == Web(s.calendar.url).vevents
                value == s.result.value
            IN  /\ Len(value) = Len(vevents)
                /\ \A k \in 1..Len(value) :
                      /\ value[k].title = vevents[k].summary
                      /\ "description" \in DOMAIN value[k]
                            <=> Truthy(vevents[k], "description")
                      /\ "description" \in DOMAIN value[k]
                            => value[k].description = vevents[k].description
                      /\ "location" \in DOMAIN value[k]
                            <=> Truthy(vevents[k], "location")
                      /\ "location" \in DOMAIN value[k]
                            => value[k].location = vevents[k].location

\* a source with shown details returned an event for a vevent with an empty
\* description and a non-empty location, and one for a vevent with neither
C4_Witness ==
    \E s \in Settled :
        /\ s.calendar.showDetails
        /\ \E k \in 1..Len(s.result.value) :
              /\ "description" \in DOMAIN Web(s.calendar.url).vevents[k]
              /\ "description" \notin DOMAIN s.result.value[k]
              /\ "location" \in DOMAIN s.result.value[k]
        /\ \E k \in 1..Len(s.result.value) :
              DOMAIN s.result.value[k]
                 = {"title", "start", "end", "allDay", "calendarId"}

\* C5: no cycle ends without publishing, and what a cycle publishes is the
\* events of the sources whose fetch and parse succeeded, a failed source
\* contributing nothing.
C5_FailureIsolation ==
    /\ ~isLoading => published # <<>>
    /\ published # <<>> =>
          LET c == published[1]
          IN  /\ \A i \in 1..Len(c.slots) : ~c.slots[i][1].rejected
              /\ events = flat([i \in 1..Len(c.slots) |->
                                  IF c.slots[i][1].logged THEN <<>>
                                  ELSE Mapped(c.fetches[i])])

\* a cycle in which one source failed and another gave events has published
C5_Witness ==
    /\ published # <<>>
    /\ events # <<>>
    /\ \E i \in 1..Len(published[1].slots) : published[1].slots[i][1].logged

\* C6: what a cycle publishes is the concatenation, in source-list order, of
\* one sequence per fetched source (its mapped events, or nothing when it
\* failed), whatever the order in which the fetches settled.
C6_SourceOrder ==
    published # <<>> =>
        LET c == published[1]
        IN  \E ok \in [1..Len(c.fetches) -> BOOLEAN] :
                events = flat([i \in 1..Len(c.fetches) |->
                                 IF ok[i] THEN Mapped(c.fetches[i]) ELSE <<>>])

\* two sources with one event each settled in the reverse of the list order
C6_Witness ==
    /\ published # <<>>
    /\ published[1].order = <<2, 1>>
    /\ Len(events) = 2
    /\ events[1].calendarId = published[1].fetches[1].id
    /\ events[2].calendarId = published[1].fetches[2].id
    /\ events[1].calendarId # events[2].calendarId

\* C11: while a cycle is in flight, the initial one or a later one,
\* isLoading is true.
C11_LoadingWhileInFlight == cycles # <<>> => isLoading

\* no source URL can be resolved from the configuration
NoSourceResolvable ==
    \/ app = "multi" /\ \A i \in 1..Len(env) : ~IsCalendarKey(env[i].key)
    \/ app = "single" /\ (~HasKey(env, ICS_URL_KEY) \/ Value(env, ICS_URL_KEY) = <<>>)

\* C12: when no source URL can be resolved the mounted page has issued no
\* fetch, its event list is empty and the loading state has ended.
C12_NoSource ==
    (pc = "run" /\ NoSourceResolvable) =>
        /\ cycles = <<>>
        /\ \A c \in Range(published) : c.fetches = <<>>
        /\ events = <<>>
        /\ ~isLoading

\* the multi-source page was mounted without any named source
C12_Witness ==
    /\ pc = "run"
    /\ app = "multi"
    /\ \A i \in 1..Len(env) : ~IsCalendarKey(env[i].key)
    /\ published # <<>>
    /\ ~isLoading

\* C14: every published event carries the id of a source of the current
\* source list, and the ids of the list are those resolved at startup.
C14_KnownSources ==
    pc = "run" =>
        /\ \A n \in 1..Len(events) : events[n].calendarId \in Ids(calendars)
        /\ Len(calendars) = Len(getCalendarConfigs(env))
        /\ \A i \in 1..Len(calendars) :
              calendars[i].id = getCalendarConfigs(env)[i].id

\* events are published while a source has been toggled off
C14_Witness ==
    /\ toggles > 0
    /\ events # <<>>
    /\ \E i \in 1..Len(calendars) : ~calendars[i].enabled

\* C15: the published list is the initial empty list until a cycle
\* publishes, and from then on the whole merged result of the one cycle that
\* published last, all of whose fetches had settled.
C15_WholeList ==
    /\ published = <<>> => events = <<>>
    /\ published # <<>> =>
          /\ AllSettled(published[1].slots)
          /\ events = AllEvents(published[1].slots)

\* a list is published while a later cycle holds a settled, non-empty
\* result next to a pending fetch
C15_Witness ==
    /\ published # <<>>
    /\ events # <<>>
    /\ \E k \in 1..Len(cycles) :
          /\ \E i \in 1..Len(cycles[k].slots) : cycles[k].slots[i] = <<>>
          /\ \E i \in 1..Len(cycles[k].slots) :
                cycles[k].slots[i] # <<>> /\ cycles[k].slots[i][1].value # <<>>

\* the list new is the list old with the flag of every source of that id
\* inverted and nothing else changed
Flipped(old, new, id, flag) ==
    /\ Len(new) = Len(old)
    /\ \A i \in 1..Len(old) :
          IF old[i].id = id
          THEN /\ new[i][flag] = ~old[i][flag]
               /\ \A f \in DOMAIN old[i] \ {flag} : new[i][f] = old[i][f]
               /\ DOMAIN new[i] = DOMAIN old[i]
          ELSE new[i] = old[i]

\* C18: toggleCalendar(id) inverts enabled of the source with that id,
\* toggleDetails(id) inverts its showDetails, and neither changes anything
\* else in the source list, nor currentDate, nor activeView.
C18_ToggleFrame ==
    [][\A id \in Ids(calendars) :
          /\ toggleCalendar(id) =>
                /\ Flipped(calendars, calendars', id, "enabled")
                /\ date' = date /\ view' = view
          /\ toggleDetails(id) =>
                /\ Flipped(calendars, calendars', id, "showDetails")
                /\ date' = date /\ view' = view]_vars

\* after two toggles one source is disabled, another is enabled, and one
\* has another showDetails than it was configured with
C18_Witness ==
    /\ toggles = 2
    /\ \E i, j \in 1..Len(calendars) :
          ~calendars[i].enabled /\ calendars[j].enabled
    /\ \E i \in 1..Len(calendars) :
          calendars[i].showDetails # getCalendarConfigs(env)[i].showDetails

\* C19: when no fetch hangs isLoading becomes false; once false it stays
\* false; and while a fetch of the initial cycle is pending it is true.
C19_LoadingEnds ==
    /\ <>(~isLoading)
    /\ [][~isLoading => ~isLoading']_vars
    /\ [](\A k \in 1..Len(cycles) : cycles[k].first => isLoading)

\* the initial cycle has ended the loading state although a source failed
C19_Witness ==
    /\ ~isLoading
    /\ published # <<>>
    /\ published[1].first
    /\ \E i \in 1..Len(published[1].slots) : published[1].slots[i][1].logged

----------------------------------------------------------------------------
(* Properties of the navigation (SpecNav) *)

\* the last two handleNavigate calls were NEXT and then PREV, in one view
NextThenPrev ==
    /\ Len(navTrail) = 2
    /\ navTrail[1].action = "NEXT"
    /\ navTrail[2].action = "PREV"
    /\ navTrail[1].view = navTrail[2].view

C13_Today ==
    [][(/\ navSteps' = navSteps + 1
        /\ navTrail'[Len(navTrail')].action = "TODAY")
          => /\ date' = navTrail'[Len(navTrail')].read[1]
             /\ view' = view]_vars

\* TODAY was called in the agenda view on another date than today's
C13_Witness ==
    /\ navTrail # <<>>
    /\ navTrail[Len(navTrail)].action = "TODAY"
    /\ navTrail[Len(navTrail)].view = "agenda"
    /\ navTrail[Len(navTrail)].from # date
    /\ navTrail[Len(navTrail)].read = <<date>>

----------------------------------------------------------------------------
(* Properties of the resize listener (SpecView) *)

\* C16: after the handleResize of the mount and after every later one the
\* view is work_week when the width is below 768 and week otherwise,
\* whatever it was before; a resize changes neither currentDate nor the
\* source list.
C16_Resize ==
    [][/\ (Mount \/ \E w \in Widths : handleResize(w))
            => view' = (IF width' < 768 THEN "work_week" ELSE "week")
       /\ (\E w \in Widths : handleResize(w))
            => (date' = date /\ calendars' = calendars)]_vars

\* a resize below the breakpoint replaced the month view the user had chosen
C16_Witness ==
    /\ resized.seen
    /\ resized.before = "month"
    /\ width < BREAKPOINT
    /\ view = "work_week"

----------------------------------------------------------------------------
(* Properties of the touch gestures (SpecTouch) *)

\* C8: a touch-end whose gesture started at s and last moved to e dispatches
\* exactly one NEXT when s - e > 50, exactly one PREV when s - e < -50, and
\* nothing when |s - e| <= 50, for all coordinates s and e, 0 included.
C8_Swipe ==
    (ended.seen /\ ended.move # <<>>) =>
        LET distance == ended.start[1] - ended.move[1]
        IN  /\ distance > THRESHOLD => ended.dispatched = <<"NEXT">>
            /\ distance < -THRESHOLD => ended.dispatched = <<"PREV">>
            /\ (distance <= THRESHOLD /\ distance >= -THRESHOLD)
                  => ended.dispatched = <<>>

\* C9: after every touch-end both stored coordinates are null.
C9_Reset ==
    (ended.seen /\ ~gesture.active) => (touchStart = <<>> /\ touchEnd = <<>>)

----------------------------------------------------------------------------
(* Properties of the configuration resolver (SpecCfg) *)

\* a key of the form REACT_APP_CALENDAR_<NAME>_URL
IsNamed(key) == IsCalendarKey(key) /\ Len(key) >= Len(PREFIX) + Len(URL_SUFFIX)

\* its <NAME>
NameOf(key) == SubSeq(key, Len(PREFIX) + 1, Len(key) - Len(URL_SUFFIX))

\* the names of the source entries of the environment, in key order
NamesIn(e) ==
    LET named == SelectSeq(e, LAMBDA entry : IsNamed(entry.key))
    IN  [i \in 1..Len(named) |-> NameOf(named[i].key)]

\* C10: a configuration with N named source entries resolves to N records
\* with pairwise distinct ids, the i-th with id the lower-cased name,
\* enabled, and the default color, title and showDetails where the sibling
\* key is absent.
C10_Resolver ==
    pc = "run" =>
        LET names == NamesIn(env)
        IN  /\ Len(calendars) = Len(names)
            /\ \A i, j \in 1..Len(calendars) :
                  i # j => calendars[i].id # calendars[j].id
            /\ \A i \in 1..Len(calendars) :
                  /\ calendars[i].id = toLowerCase(names[i])
                  /\ calendars[i].enabled
                  /\ ~HasKey(env, PREFIX \o names[i] \o COLOR_SUFFIX)
                        => calendars[i].color = DEFAULT_COLOR
                  /\ ~HasKey(env, PREFIX \o names[i] \o TITLE_SUFFIX)
                        => calendars[i].title = names[i]
                  /\ ~HasKey(env, PREFIX \o names[i] \o SHOW_DETAILS_SUFFIX)
                        => ~calendars[i].showDetails

\* the index of the last key of the environment that resolves to this id
LastWithId(e, id) ==
    CHOOSE i \in 1..Len(e) :
        /\ IsCalendarKey(e[i].key) /\ ConfigOfKey(e, e[i].key).id = id
        /\ \A j \in (i + 1)..Len(e) :
              ~(IsCalendarKey(e[j].key) /\ ConfigOfKey(e, e[j].key).id = id)

\* C17: the resolved sources have pairwise distinct ids, and the record
\* kept for an id is that of the last key that resolves to the id.
C17_UniqueIds ==
    pc = "run" =>
        /\ \A i, j \in 1..Len(calendars) :
              i # j => calendars[i].id # calendars[j].id
        /\ \A i \in 1..Len(calendars) :
              calendars[i] = ConfigOfKey(env, env[LastWithId(env, calendars[i].id)].key)

----------------------------------------------------------------------------
(* More properties of the touch gestures (SpecTouch) *)

\* C20: a touch-end whose gesture reported no movement dispatches no
\* navigation, whatever gestures came before.
C20_NoMoveNoNavigation ==
    (ended.seen /\ ended.move = <<>>) => ended.dispatched = <<>>

----------------------------------------------------------------------------
(* Convergence of overlapping cycles (SpecSameDocs) *)

\* the list one run of fetchAllCalendars over the source list cals publishes
\* when every fetch receives the document of its url
Aggregate(cals) ==
    flat([i \in 1..Len(enabledCalendars(cals)) |->
             Mapped(enabledCalendars(cals)[i])])

\* C21: when every fetch of a source receives the same document, once all
\* started cycles have completed the published list is the aggregation of
\* the current source list; in particular every published event of a source
\* whose showDetails is currently false carries the source's title (a source
\* being told from the others by its id).
C21_Convergence ==
    (pc = "run" /\ cycles = <<>> /\ published # <<>>) =>
        /\ events = Aggregate(calendars)
        /\ \A n \in 1..Len(events) : \A j \in 1..Len(calendars) :
              (/\ calendars[j].id = events[n].calendarId
               /\ \A h \in 1..Len(calendars) :
                      calendars[h].id = calendars[j].id => h = j
               /\ ~calendars[j].showDetails)
                    => events[n].title = calendars[j].title

====
